---------------------------- MODULE Spec2Model ----------------------------
(***************************************************************************)
(* Session orchestration of the codex and gemini provider supervisors      *)
(* (src-tauri/src/commands/codex.rs, gemini.rs).                           *)
(*                                                                         *)
(* Every call of execute_*_chat / resume_*_chat is an invocation i; the    *)
(* child it spawns is process i.  The tokio mutex around the provider's    *)
(* current_process makes each critical section one atomic step; every      *)
(* app.emit is a step of its own, because the command futures and the      *)
(* spawned reader tasks run on a multi-worker runtime.                     *)
(*                                                                         *)
(* History unification (src-tauri/src/unified_history.rs) shares no state  *)
(* with the supervisors: it is a function of the provider log files, and   *)
(* one call is one step.  It has a specification of its own, SpecUnify.    *)
(*                                                                         *)
(* The settings commands (get/set default model, set binary path) work on  *)
(* the app_settings table of agents.db alone; each call opens the database *)
(* and is one step.  Their specification is SpecStore.                     *)
(***************************************************************************)
EXTENDS Integers, Sequences, FiniteSets

\* ------------------------------------------------------------- bounds
MaxInv == 2     \* start/resume calls in one run (also the session ids)
MaxLines == 2   \* lines the reader tasks read in one run, all streams together

Invocations == 1..MaxInv
SessionIds  == 1..MaxInv
Providers   == {"codex", "gemini"}
None        == 0             \* Option::None of the slot; no process

VARIABLES
    inv,        \* inv[i]: the call's kind, provider module and session_id
    pc,         \* pc[i]: position of the command future of invocation i
    ret,        \* ret[i]: what the command returned to its caller
    slot,       \* slot[p]: current_process of provider p (a process or None)
    outTaken,   \* outTaken[c]: invocation that took child c's stdout, or None
    errTaken,   \* errTaken[c]: invocation that took child c's stderr, or None
    killed,     \* processes that received start_kill
    registry,   \* registry[S]: the Session Registry's record of S, or None
    src,        \* src[i]: the process whose streams invocation i reads
    opc, epc,   \* position of the stdout / stderr reader task of i
    nOut, nErr, \* lines the readers of i have read so far
    cpc,        \* position of the completion task of i
    emitted,    \* emitted[topic]: the payloads published on the topic, in order
    files,      \* the *.jsonl files the gatherers visit, in the order visited
    env,        \* what the file system lets unify do with its output
    unified,    \* the unified.jsonl file of the project
    runs,       \* what each unify call so far gathered, wrote and returned
    quiet,      \* history: invocations past their slot store and before their
                \* reader acquisition with no other start, resume or cancel
                \* of their provider having taken a step since the store
    db,         \* agents.db: the file, its app_settings table and the rows
    config,     \* config[p]: what a scan of p's config files finds
    calls       \* the settings commands called so far, with what they returned

\* The variables of history unification, and those of the supervisors.
uvars == <<files, env, unified, runs>>

svars == <<inv, pc, ret, slot, outTaken, errTaken, killed, registry,
           src, opc, epc, nOut, nErr, cpc, emitted>>

\* The variables of the settings commands.
mvars == <<db, config, calls>>

vars == <<svars, uvars, quiet, mvars>>

\* ------------------------------------------------------------- events
Kinds == {"output", "error", "complete"}

\* "{provider}-{K}"
TopicWide(p, K) == <<p, K, None>>

\* "{provider}-{K}:{session_id}"
TopicSession(p, K, S) == <<p, K, S>>

Topics == {TopicWide(p, K) : p \in Providers, K \in Kinds}
          \cup {TopicSession(p, K, S) : p \in Providers, K \in Kinds, S \in SessionIds}

\* The init payload carries session_id and provider.  by (the emitting
\* invocation) and, on line payloads, sid are bookkeeping of the model;
\* line <<c, n>> is the text of the n-th line of a stream of process c.
InitMsg(p, S, i) ==
    [type |-> "init", provider |-> p, sid |-> S, by |-> i, line |-> <<>>]

AssistantMsg(p, S, i, c, n) ==
    [type |-> "assistant", provider |-> p, sid |-> S, by |-> i, line |-> <<c, n>>]

StderrLine(p, S, i, c, n) ==
    [type |-> "stderr", provider |-> p, sid |-> S, by |-> i, line |-> <<c, n>>]

\* CompleteMsg as it would be if a killed process were reported as cancelled.
CompleteMsgCancelled(p, S, i) ==
    [type |-> IF src[i] \in killed THEN "cancelled" ELSE "true",
     provider |-> p, sid |-> S, by |-> i, line |-> <<>>]

CompleteMsg(p, S, i) ==
    [type |-> "true", provider |-> p, sid |-> S, by |-> i, line |-> <<>>]

Emit(topic, payload) == emitted' = [emitted EXCEPT ![topic] = Append(@, payload)]

\* ------------------------------------------------------------- registry
NoRecord == [provider |-> "", pid |-> None]

\* register(session_id, provider, pid, ...): inserts a new record and reports
\* DuplicateSession, leaving the table alone, when the id is already there.
register_chat_session(reg, S, p, pid) ==
    IF reg[S] # NoRecord
    THEN [table |-> reg, result |-> "DuplicateSession"]
    ELSE [table |-> [reg EXCEPT ![S] = [provider |-> p, pid |-> pid]], result |-> "Ok"]

\* list_running(provider): the session ids registered under that provider.
get_running_chat_sessions(reg, p) ==
    {S \in SessionIds : reg[S] # NoRecord /\ reg[S].provider = p}

\* ------------------------------------------------------------- results
\* Result<(), String> of a command: not returned yet, Ok(()), or Err(msg).
Pending  == [ok |-> FALSE, returned |-> FALSE, val |-> <<>>]
OkUnit   == [ok |-> TRUE, returned |-> TRUE, val |-> <<>>]
Err(msg) == [ok |-> FALSE, returned |-> TRUE, val |-> <<msg>>]

\* ------------------------------------------------------------- files
\* A file that does not exist (File::open fails), and one with the given lines.
NoFile == [exists |-> FALSE, lines |-> <<>>]

FileOf(lines) == [exists |-> TRUE, lines |-> lines]

\* ------------------------------------------------------------- initial state
Idle == [kind |-> "none", provider |-> "", sid |-> None]

InitSupervisor ==
    /\ inv = [i \in Invocations |-> Idle]
    /\ pc = [i \in Invocations |-> "idle"]
    /\ ret = [i \in Invocations |-> Pending]
    /\ slot = [p \in Providers |-> None]
    /\ outTaken = [c \in Invocations |-> None]
    /\ errTaken = [c \in Invocations |-> None]
    /\ killed = {}
    /\ registry = [S \in SessionIds |-> NoRecord]
    /\ src = [i \in Invocations |-> None]
    /\ opc = [i \in Invocations |-> "off"]
    /\ epc = [i \in Invocations |-> "off"]
    /\ nOut = [i \in Invocations |-> 0]
    /\ nErr = [i \in Invocations |-> 0]
    /\ cpc = [i \in Invocations |-> "off"]
    /\ emitted = [t \in Topics |-> <<>>]

\* Option<T>
Some(x) == <<x>>

Nothing == <<>>

unwrap_or(opt, d) == IF opt = Nothing THEN d ELSE opt[1]

\* ------------------------------------------------------------- settings store
\* "{provider}_default_model" and "{provider}_binary_path"
DefaultModelKey(p) == <<p, "default_model">>

BinaryPathKey(p) == <<p, "binary_path">>

Keys == {DefaultModelKey(p) : p \in Providers} \cup {BinaryPathKey(p) : p \in Providers}

\* No agents.db file in the app data directory.
NoDb == [file |-> FALSE, table |-> FALSE, rows |-> [k \in Keys |-> Nothing]]

\* No settings command has been called; no config file names a model.
InitSettings ==
    /\ db = NoDb
    /\ config = [p \in Providers |-> Nothing]
    /\ calls = <<>>

\* No unify call and no settings command is made while the supervisors
\* are looked at.
Init ==
    /\ InitSupervisor
    /\ quiet = {}
    /\ InitSettings
    /\ files = <<>>
    /\ env = "ok"
    /\ unified = NoFile
    /\ runs = <<>>

\* ------------------------------------------------------------- start / resume
Called == {i \in Invocations : pc[i] # "idle"}

Prov(i) == inv[i].provider

Sid(i) == inv[i].sid

\* The invocations of provider p.
SameProvider(p) == {j \in Invocations : inv[j].provider = p}

\* Session ids handed to any earlier call (generated or supplied).
UsedIds == {Sid(j) : j \in Called}

\* Uuid::new_v4(): an id no earlier call has seen.
new_v4 == CHOOSE S \in SessionIds \ UsedIds : \A T \in SessionIds \ UsedIds : S <= T

\* spawn_process as it would be without the registration.
spawn_unregistered(i, p, kind, S) ==
    /\ pc[i] = "idle"
    /\ quiet' = quiet \ SameProvider(p)
    /\ \A j \in Invocations : j < i => pc[j] # "idle"
    /\ inv' = [inv EXCEPT ![i] = [kind |-> kind, provider |-> p, sid |-> S]]
    /\ pc' = [pc EXCEPT ![i] = "track"]
    /\ UNCHANGED <<uvars, mvars, ret, registry, slot, outTaken, errTaken, killed, src, opc, epc,
                   nOut, nErr, cpc, emitted>>

\* spawn_process as it would be if the session were registered before the
\* binary is spawned.
spawn_registered_first(i, p, kind, S) ==
    /\ pc[i] = "idle"
    /\ quiet' = quiet \ SameProvider(p)
    /\ \A j \in Invocations : j < i => pc[j] # "idle"
    /\ inv' = [inv EXCEPT ![i] = [kind |-> kind, provider |-> p, sid |-> S]]
    /\ registry' = register_chat_session(registry, S, p, i).table
    /\ \E spawned \in BOOLEAN :
         IF spawned
         THEN pc' = [pc EXCEPT ![i] = "track"] /\ ret' = ret
         ELSE /\ pc' = [pc EXCEPT ![i] = "done"]
              /\ ret' = [ret EXCEPT ![i] = Err("Failed to spawn")]
    /\ UNCHANGED <<uvars, mvars, slot, outTaken, errTaken, killed, src, opc, epc,
                   nOut, nErr, cpc, emitted>>

\* spawn_*_process up to the registration: cmd.spawn() fails and the error
\* is returned, or the child (process i, pid i) exists and the session is
\* registered under the module's provider name; the register result is
\* discarded (let _ =).
spawn_process(i, p, kind, S) ==
    /\ pc[i] = "idle"
    /\ quiet' = quiet \ SameProvider(p)
    /\ \A j \in Invocations : j < i => pc[j] # "idle"
    /\ inv' = [inv EXCEPT ![i] = [kind |-> kind, provider |-> p, sid |-> S]]
    /\ \E spawned \in BOOLEAN :
         IF spawned
         THEN /\ registry' = register_chat_session(registry, S, p, i).table
              /\ pc' = [pc EXCEPT ![i] = "track"]
              /\ ret' = ret
         ELSE /\ pc' = [pc EXCEPT ![i] = "done"]
              /\ ret' = [ret EXCEPT ![i] = Err("Failed to spawn")]
              /\ registry' = registry
    /\ UNCHANGED <<uvars, mvars, slot, outTaken, errTaken, killed, src, opc, epc,
                   nOut, nErr, cpc, emitted>>

execute_chat(i, p) ==
    /\ SessionIds \ UsedIds # {}
    /\ spawn_process(i, p, "start", new_v4)

\* Ids a start call generated whose init event no subscriber has seen yet:
\* a caller of resume cannot supply them.
Unpublished ==
    {Sid(j) : j \in {k \in Called : /\ inv[k].kind = "start"
                                    /\ pc[k] \in {"track", "init_wide"}
                                       \/ ret[k] = Err("Failed to spawn")}}

resume_chat(i, p, S) ==
    /\ S \notin Unpublished
    /\ spawn_process(i, p, "resume", S)

\* Track as it would be with the init emission left out.
TrackWithoutInit(i) ==
    /\ pc[i] = "track"
    /\ quiet' = (quiet \ SameProvider(Prov(i))) \cup {i}
    /\ slot' = [slot EXCEPT ![Prov(i)] = i]
    /\ pc' = [pc EXCEPT ![i] = "obtain"]
    /\ UNCHANGED <<uvars, mvars, inv, ret, outTaken, errTaken, killed, registry, src, opc, epc,
                   nOut, nErr, cpc, emitted>>

\* Track as it would be if the handle found in the slot were killed first.
TrackKillingPrevious(i) ==
    /\ pc[i] = "track"
    /\ quiet' = (quiet \ SameProvider(Prov(i))) \cup {i}
    /\ killed' = killed \cup ({slot[Prov(i)]} \ {None})
    /\ slot' = [slot EXCEPT ![Prov(i)] = i]
    /\ pc' = [pc EXCEPT ![i] = "init_wide"]
    /\ UNCHANGED <<uvars, mvars, inv, ret, outTaken, errTaken, registry, src, opc, epc,
                   nOut, nErr, cpc, emitted>>

\* "Track current process for cancellation": *guard = Some(child).  The
\* handle the slot held is dropped; tokio does not kill a dropped Child.
Track(i) ==
    /\ pc[i] = "track"
    /\ quiet' = (quiet \ SameProvider(Prov(i))) \cup {i}
    /\ slot' = [slot EXCEPT ![Prov(i)] = i]
    /\ pc' = [pc EXCEPT ![i] = "init_wide"]
    /\ UNCHANGED <<uvars, mvars, inv, ret, outTaken, errTaken, killed, registry, src, opc, epc,
                   nOut, nErr, cpc, emitted>>

\* app.emit("{p}-output", init_line)
EmitInitWide(i) ==
    /\ pc[i] = "init_wide"
    /\ quiet' = quiet \ (SameProvider(Prov(i)) \ {i})
    /\ Emit(TopicWide(Prov(i), "output"), InitMsg(Prov(i), Sid(i), i))
    /\ pc' = [pc EXCEPT ![i] = "init_session"]
    /\ UNCHANGED <<uvars, mvars, inv, ret, slot, outTaken, errTaken, killed, registry,
                   src, opc, epc, nOut, nErr, cpc>>

\* app.emit("{p}-output:{session_id}", init_line)
EmitInitSession(i) ==
    /\ pc[i] = "init_session"
    /\ quiet' = quiet \ (SameProvider(Prov(i)) \ {i})
    /\ Emit(TopicSession(Prov(i), "output", Sid(i)), InitMsg(Prov(i), Sid(i), i))
    /\ pc' = [pc EXCEPT ![i] = "obtain"]
    /\ UNCHANGED <<uvars, mvars, inv, ret, slot, outTaken, errTaken, killed, registry,
                   src, opc, epc, nOut, nErr, cpc>>

\* ObtainReaders as it would be if the completion task were spawned before
\* the handles are taken: on a failure it still runs, with no reader to await.
ObtainReadersTaskFirst(i) ==
    /\ pc[i] = "obtain"
    /\ quiet' = quiet \ SameProvider(Prov(i))
    /\ pc' = [pc EXCEPT ![i] = "done"]
    /\ LET c == slot[Prov(i)] IN
       IF c = None \/ outTaken[c] # None \/ errTaken[c] # None
       THEN /\ ret' = [ret EXCEPT ![i] = IF c = None THEN Err("No process")
                                         ELSE Err("Failed to capture stdout")]
            /\ opc' = [opc EXCEPT ![i] = "eof"]
            /\ epc' = [epc EXCEPT ![i] = "eof"]
            /\ cpc' = [cpc EXCEPT ![i] = "wait"]
            /\ UNCHANGED <<uvars, mvars, outTaken, errTaken, src>>
       ELSE /\ ret' = [ret EXCEPT ![i] = OkUnit]
            /\ outTaken' = [outTaken EXCEPT ![c] = i]
            /\ errTaken' = [errTaken EXCEPT ![c] = i]
            /\ src' = [src EXCEPT ![i] = c]
            /\ opc' = [opc EXCEPT ![i] = "read"]
            /\ epc' = [epc EXCEPT ![i] = "read"]
            /\ cpc' = [cpc EXCEPT ![i] = "wait"]
    /\ UNCHANGED <<uvars, mvars, inv, slot, killed, registry, nOut, nErr, emitted>>

\* "Obtain readers": lock the slot again and take stdout and stderr of
\* whatever child it holds now; on success the two reader tasks and the
\* completion task are spawned and Ok(()) is returned.
ObtainReaders(i) ==
    /\ pc[i] = "obtain"
    /\ quiet' = quiet \ SameProvider(Prov(i))
    /\ pc' = [pc EXCEPT ![i] = "done"]
    /\ LET c == slot[Prov(i)] IN
       IF c = None
       THEN /\ ret' = [ret EXCEPT ![i] = Err("No process")]
            /\ UNCHANGED <<uvars, mvars, outTaken, errTaken, src, opc, epc, cpc>>
       ELSE IF outTaken[c] # None
       THEN /\ ret' = [ret EXCEPT ![i] = Err("Failed to capture stdout")]
            /\ UNCHANGED <<uvars, mvars, outTaken, errTaken, src, opc, epc, cpc>>
       ELSE IF errTaken[c] # None
       THEN /\ ret' = [ret EXCEPT ![i] = Err("Failed to capture stderr")]
            /\ outTaken' = [outTaken EXCEPT ![c] = i]
            /\ UNCHANGED <<uvars, mvars, errTaken, src, opc, epc, cpc>>
       ELSE /\ ret' = [ret EXCEPT ![i] = OkUnit]
            /\ outTaken' = [outTaken EXCEPT ![c] = i]
            /\ errTaken' = [errTaken EXCEPT ![c] = i]
            /\ src' = [src EXCEPT ![i] = c]
            /\ opc' = [opc EXCEPT ![i] = "read"]
            /\ epc' = [epc EXCEPT ![i] = "read"]
            /\ cpc' = [cpc EXCEPT ![i] = "wait"]
    /\ UNCHANGED <<uvars, mvars, inv, slot, killed, registry, nOut, nErr, emitted>>


\* ------------------------------------------------------------- reader tasks
RECURSIVE SumTo(_, _)
SumTo(f, n) == IF n = 0 THEN 0 ELSE f[n] + SumTo(f, n - 1)

\* Lines read so far by all reader tasks.
TotalLines == SumTo(nOut, MaxInv) + SumTo(nErr, MaxInv)

\* NextLine as it would be if the stream were handed out last line first.
NextLineLifo(n) == MaxLines - n

\* The line lines.next_line() yields after n lines were read.
NextLine(n) == n + 1

\* stdout task: a line was read; it is wrapped as assistant text and
\* emitted on "{p}-output:{sid}".
StdoutSession(i) ==
    /\ opc[i] = "read"
    /\ TotalLines < MaxLines
    /\ nOut' = [nOut EXCEPT ![i] = @ + 1]
    /\ Emit(TopicSession(Prov(i), "output", Sid(i)),
            AssistantMsg(Prov(i), Sid(i), i, src[i], NextLine(nOut[i])))
    /\ opc' = [opc EXCEPT ![i] = "wide"]
    /\ UNCHANGED <<uvars, mvars, quiet, inv, pc, ret, slot, outTaken, errTaken, killed, registry, src, epc, nErr, cpc>>

\* StdoutWide as it would be if the provider-wide emit were missing.
StdoutWideMissing(i) ==
    /\ opc[i] = "wide"
    /\ opc' = [opc EXCEPT ![i] = "read"]
    /\ UNCHANGED <<uvars, mvars, quiet, inv, pc, ret, slot, outTaken, errTaken, killed,
                   registry, src, epc, nOut, nErr, cpc, emitted>>

\* stdout task: the same string is emitted on "{p}-output".
StdoutWide(i) ==
    /\ opc[i] = "wide"
    /\ Emit(TopicWide(Prov(i), "output"),
            AssistantMsg(Prov(i), Sid(i), i, src[i], NextLine(nOut[i] - 1)))
    /\ opc' = [opc EXCEPT ![i] = "read"]
    /\ UNCHANGED <<uvars, mvars, quiet, inv, pc, ret, slot, outTaken, errTaken, killed, registry, src, epc, nOut, nErr, cpc>>

\* stdout task: next_line() gave Ok(None) or an error; the loop ends.
StdoutEof(i) ==
    /\ opc[i] = "read"
    /\ opc' = [opc EXCEPT ![i] = "eof"]
    /\ UNCHANGED <<uvars, mvars, quiet, inv, pc, ret, slot, outTaken, errTaken, killed, registry, src, epc, nOut, nErr, cpc, emitted>>

\* stderr task: a line was read and is emitted verbatim on "{p}-error:{sid}".
StderrSession(i) ==
    /\ epc[i] = "read"
    /\ TotalLines < MaxLines
    /\ nErr' = [nErr EXCEPT ![i] = @ + 1]
    /\ Emit(TopicSession(Prov(i), "error", Sid(i)),
            StderrLine(Prov(i), Sid(i), i, src[i], NextLine(nErr[i])))
    /\ epc' = [epc EXCEPT ![i] = "wide"]
    /\ UNCHANGED <<uvars, mvars, quiet, inv, pc, ret, slot, outTaken, errTaken, killed, registry, src, opc, nOut, cpc>>

\* stderr task: the same line is emitted on "{p}-error".
StderrWide(i) ==
    /\ epc[i] = "wide"
    /\ Emit(TopicWide(Prov(i), "error"),
            StderrLine(Prov(i), Sid(i), i, src[i], NextLine(nErr[i] - 1)))
    /\ epc' = [epc EXCEPT ![i] = "read"]
    /\ UNCHANGED <<uvars, mvars, quiet, inv, pc, ret, slot, outTaken, errTaken, killed, registry, src, opc, nOut, nErr, cpc>>

\* stderr task: end of stream.
StderrEof(i) ==
    /\ epc[i] = "read"
    /\ epc' = [epc EXCEPT ![i] = "eof"]
    /\ UNCHANGED <<uvars, mvars, quiet, inv, pc, ret, slot, outTaken, errTaken, killed, registry, src, opc, nOut, nErr, cpc, emitted>>

\* ------------------------------------------------------------- completion task
\* ReadersJoined as it would be if only the stdout task were awaited.
StdoutJoined(i) == opc[i] = "eof"

\* stdout_task.await; stderr_task.await
ReadersJoined(i) == opc[i] = "eof" /\ epc[i] = "eof"

\* After the flush delay: app.emit("{p}-complete:{sid}", true)
CompleteSession(i) ==
    /\ cpc[i] = "wait"
    /\ ReadersJoined(i)
    /\ Emit(TopicSession(Prov(i), "complete", Sid(i)), CompleteMsg(Prov(i), Sid(i), i))
    /\ cpc' = [cpc EXCEPT ![i] = "wide"]
    /\ UNCHANGED <<uvars, mvars, quiet, inv, pc, ret, slot, outTaken, errTaken, killed, registry, src, opc, epc, nOut, nErr>>

\* app.emit("{p}-complete", true)
CompleteWide(i) ==
    /\ cpc[i] = "wide"
    /\ Emit(TopicWide(Prov(i), "complete"), CompleteMsg(Prov(i), Sid(i), i))
    /\ cpc' = [cpc EXCEPT ![i] = "clear"]
    /\ UNCHANGED <<uvars, mvars, quiet, inv, pc, ret, slot, outTaken, errTaken, killed, registry, src, opc, epc, nOut, nErr>>

\* ClearState as it would be if the completion task left the handle in the
\* slot.
ClearStateKeepsHandle(i) ==
    /\ cpc[i] = "clear"
    /\ cpc' = [cpc EXCEPT ![i] = "done"]
    /\ UNCHANGED <<uvars, mvars, quiet, inv, pc, ret, slot, outTaken, errTaken, killed, registry, src,
                   opc, epc, nOut, nErr, emitted>>

\* "Clear state": *guard = None, whatever the slot holds.
ClearState(i) ==
    /\ cpc[i] = "clear"
    /\ slot' = [slot EXCEPT ![Prov(i)] = None]
    /\ cpc' = [cpc EXCEPT ![i] = "done"]
    /\ UNCHANGED <<uvars, mvars, quiet, inv, pc, ret, outTaken, errTaken, killed, registry, src,
                   opc, epc, nOut, nErr, emitted>>

\* ------------------------------------------------------------- cancel
\* cancel_execution as it would be if an empty slot were reported as an error.
cancel_strict(sl, kl, p, killOk) ==
    IF sl[p] = None
    THEN [slot |-> sl, killed |-> kl, ret |-> Err("No process")]
    ELSE IF killOk
    THEN [slot |-> [sl EXCEPT ![p] = None], killed |-> kl \cup {sl[p]}, ret |-> OkUnit]
    ELSE [slot |-> sl, killed |-> kl, ret |-> Err("kill failed")]

\* cancel_execution as it would be if the slot were emptied before the kill
\* request is made.
cancel_clearing_first(sl, kl, p, killOk) ==
    IF sl[p] = None
    THEN [slot |-> sl, killed |-> kl, ret |-> OkUnit]
    ELSE IF killOk
    THEN [slot |-> [sl EXCEPT ![p] = None], killed |-> kl \cup {sl[p]}, ret |-> OkUnit]
    ELSE [slot |-> [sl EXCEPT ![p] = None], killed |-> kl, ret |-> Err("kill failed")]

\* cancel_*_execution on slot table sl and kill set kl; killOk is whether
\* start_kill succeeds.  An error returns before the slot is cleared.
cancel_execution(sl, kl, p, killOk) ==
    IF sl[p] = None
    THEN [slot |-> sl, killed |-> kl, ret |-> OkUnit]
    ELSE IF killOk
    THEN [slot |-> [sl EXCEPT ![p] = None], killed |-> kl \cup {sl[p]}, ret |-> OkUnit]
    ELSE [slot |-> sl, killed |-> kl, ret |-> Err("kill failed")]

\* Cancel as it would be if one cancel emptied the slot of every provider.
CancelEveryProvider(p) ==
    \E killOk \in BOOLEAN :
        LET r == cancel_execution(slot, killed, p, killOk) IN
        /\ slot' = IF r.slot = slot THEN slot ELSE [q \in Providers |-> None]
        /\ killed' = IF r.slot = slot THEN killed
                      ELSE killed \cup ({slot[q] : q \in Providers} \ {None})
        /\ quiet' = quiet \ SameProvider(p)
        /\ UNCHANGED <<uvars, mvars, inv, pc, ret, outTaken, errTaken, registry, src,
                       opc, epc, nOut, nErr, cpc, emitted>>

Cancel(p) ==
    \E killOk \in BOOLEAN :
        LET r == cancel_execution(slot, killed, p, killOk) IN
        /\ slot' = r.slot
        /\ killed' = r.killed
        /\ quiet' = quiet \ SameProvider(p)
        /\ UNCHANGED <<uvars, mvars, inv, pc, ret, outTaken, errTaken, registry, src,
                       opc, epc, nOut, nErr, cpc, emitted>>

\* list_running_sessions as it would be if no provider filter were passed.
list_all_sessions(p) == {S \in SessionIds : registry[S] # NoRecord}

\* list_running_*_sessions: the registry's listing for the module's provider.
list_running_sessions(p) == get_running_chat_sessions(registry, p)

\* ------------------------------------------------------------- specification
Next ==
    \/ \E i \in Invocations, p \in Providers : execute_chat(i, p)
    \/ \E i \in Invocations, p \in Providers, S \in SessionIds : resume_chat(i, p, S)
    \/ \E i \in Invocations : Track(i)
    \/ \E i \in Invocations : EmitInitWide(i)
    \/ \E i \in Invocations : EmitInitSession(i)
    \/ \E i \in Invocations : ObtainReaders(i)
    \/ \E i \in Invocations : StdoutSession(i)
    \/ \E i \in Invocations : StdoutWide(i)
    \/ \E i \in Invocations : StdoutEof(i)
    \/ \E i \in Invocations : StderrSession(i)
    \/ \E i \in Invocations : StderrWide(i)
    \/ \E i \in Invocations : StderrEof(i)
    \/ \E i \in Invocations : CompleteSession(i)
    \/ \E i \in Invocations : CompleteWide(i)
    \/ \E i \in Invocations : ClearState(i)
    \/ \E p \in Providers : Cancel(p)

Spec == Init /\ [][Next]_vars

\* The completion task of every invocation is a spawned task the runtime keeps
\* polling: each of its steps, once it can run, runs.
FairSpec ==
    /\ Init /\ [][Next]_vars
    /\ \A i \in Invocations :
          /\ WF_vars(CompleteSession(i))
          /\ WF_vars(CompleteWide(i))
          /\ WF_vars(ClearState(i))


\* ------------------------------------------------------------- history: records
MaxRecords == 3   \* lines in all provider log files together
MaxCalls == 2     \* unify calls in one run

\* The order in which unify appends the providers' records.
SourceOrder == <<"claude", "codex", "gemini">>

\* for line in reader.lines().flatten().take(10)
ProbeLines == 10

\* The "timestamp" field of a JSON record: absent, a number, a string that
\* is no RFC 3339 date, or an RFC 3339 date, written as a local time (in
\* milliseconds since 1970-01-01T00:00:00) with a UTC offset.
TsAbsent == [kind |-> "absent", local |-> 0, offset |-> 0]

TsNumber == [kind |-> "number", local |-> 100, offset |-> 0]

TsText == [kind |-> "text", local |-> 0, offset |-> 0]

TsDate(local, offset) == [kind |-> "date", local |-> local, offset |-> offset]

\* A line of a log file: JSON or not, its timestamp field, and whether the
\* text contains the project path.
Malformed == [json |-> FALSE, timestamp |-> TsAbsent, proj |-> TRUE]

Json(ts, proj) == [json |-> TRUE, timestamp |-> ts, proj |-> proj]

\* The lines the log files are made of: the date 1 is written with two
\* offsets, and one date is before 1970.
LineSet ==
    {Malformed, Json(TsAbsent, FALSE)}
        \cup {Json(ts, TRUE) : ts \in {TsAbsent, TsNumber, TsText,
                                       TsDate(0 - 1, 0), TsDate(1, 0), TsDate(2, 1)}}

\* DateTime::parse_from_rfc3339(ts).ok().map(|d| d.timestamp_millis())
parse_from_rfc3339(ts) ==
    IF ts.kind = "date" THEN Some(ts.local - ts.offset) ELSE Nothing

\* try_get_ts as it would be if a record without a usable timestamp were
\* given the key 2 (sorted among the dated records).
try_get_ts_late(v) ==
    IF v.timestamp.kind = "date" THEN Some(v.timestamp.local - v.timestamp.offset)
    ELSE Some(2)

\* v.get("timestamp").and_then(|x| x.as_str()), then the date parse.
try_get_ts(v) ==
    IF v.timestamp.kind \in {"text", "date"}
    THEN parse_from_rfc3339(v.timestamp)
    ELSE Nothing

\* The sort key of all.sort_by_key(..)
SortKey(v) == unwrap_or(try_get_ts(v), 0)

\* serde_json::from_str::<Value>(&line): the value of a line that is JSON.
\* origin (the file and line the value was read from) is bookkeeping of the
\* model, no part of the value.
from_str(line, origin) ==
    IF line.json
    THEN Some([timestamp |-> line.timestamp, proj |-> line.proj, origin |-> origin])
    ELSE Nothing

\* serde_json::to_string(v): the line written for a value.
to_string(v) == Json(v.timestamp, v.proj)

\* ------------------------------------------------------------- history: gathering
Min(a, b) == IF a <= b THEN a ELSE b

\* The lines of file idx that parse, in file order, from line k on.
RECURSIVE ParseLines(_, _)
ParseLines(idx, k) ==
    IF k > Len(files[idx].lines) THEN <<>>
    ELSE from_str(files[idx].lines[k], <<idx, k>>) \o ParseLines(idx, k + 1)

\* ParseLines as it would be if ingestion of a file ended at the first line
\* that does not parse.
RECURSIVE ParseUntilError(_, _)
ParseUntilError(idx, k) ==
    IF k > Len(files[idx].lines) \/ ~files[idx].lines[k].json THEN <<>>
    ELSE from_str(files[idx].lines[k], <<idx, k>>) \o ParseUntilError(idx, k + 1)

\* read_jsonl as it would be with that ending.
read_jsonl_strict(idx) ==
    IF files[idx].access = "noopen" THEN <<>> ELSE ParseUntilError(idx, 1)

\* read_jsonl: nothing when the file does not open; else every line that
\* parses.
read_jsonl(idx) ==
    IF files[idx].access = "noopen" THEN <<>> ELSE ParseLines(idx, 1)

\* The probe of gather_from_candidates: one of the first lines of the file
\* contains the project path.
Matched(idx) ==
    /\ files[idx].access # "noopen"
    /\ \E k \in 1..Min(Len(files[idx].lines), ProbeLines) : files[idx].lines[k].proj

\* The records of the files of provider p from file idx on, in the order the
\* directory walk visits them; probe: only of files the probe accepts.
RECURSIVE GatherFrom(_, _, _)
GatherFrom(p, probe, idx) ==
    IF idx > Len(files) THEN <<>>
    ELSE (IF files[idx].provider = p /\ (~probe \/ Matched(idx))
          THEN read_jsonl(idx) ELSE <<>>)
         \o GatherFrom(p, probe, idx + 1)

\* gather_claude as it would be if the project's unified file lay in the
\* directory it reads.
gather_claude_and_unified ==
    GatherFrom("claude", FALSE, 1)
        \o [k \in 1..Len(unified.lines) |->
               [timestamp |-> unified.lines[k].timestamp,
                proj |-> unified.lines[k].proj, origin |-> <<0, k>>]]

\* gather_claude: every *.jsonl file of the project's directory under
\* ~/.claude/projects; nothing without a home directory.
gather_claude ==
    IF env = "nohome" THEN <<>> ELSE GatherFrom("claude", FALSE, 1)

\* gather_from_candidates: the probed files under the provider's roots;
\* without a home directory the roots stay "~/..." and do not exist.
gather_from_candidates(p) ==
    IF env = "nohome" THEN <<>> ELSE GatherFrom(p, TRUE, 1)

\* A read of the file keeps failing: lines() yields the error again and
\* again, flatten() drops it and asks for the next item, without end.
ReadNeverEnds ==
    env # "nohome" /\ \E idx \in 1..Len(files) : files[idx].access = "readerr"

\* ------------------------------------------------------------- history: merge
Front(seq) == SubSeq(seq, 1, Len(seq) - 1)

Last(seq) == seq[Len(seq)]

\* InsertSorted as it would be in a sort that is not stable: the new element
\* goes before its equals.
RECURSIVE InsertBeforeEquals(_, _)
InsertBeforeEquals(sorted, v) ==
    IF sorted = <<>> THEN <<v>>
    ELSE IF SortKey(Last(sorted)) < SortKey(v) THEN Append(sorted, v)
    ELSE Append(InsertBeforeEquals(Front(sorted), v), Last(sorted))

\* v put into a sorted sequence behind every element whose key is not greater.
RECURSIVE InsertSorted(_, _)
InsertSorted(sorted, v) ==
    IF sorted = <<>> THEN <<v>>
    ELSE IF SortKey(Last(sorted)) <= SortKey(v) THEN Append(sorted, v)
    ELSE Append(InsertSorted(Front(sorted), v), Last(sorted))

\* all.sort_by_key(|v| try_get_ts(v).unwrap_or(0)): a stable sort.
RECURSIVE SortFirst(_, _)
SortFirst(seq, n) ==
    IF n = 0 THEN <<>> ELSE InsertSorted(SortFirst(seq, n - 1), seq[n])

\* sort_by_key as it would be if it kept one record of each key only.
sort_unique_by_key(seq) ==
    LET s == SortFirst(seq, Len(seq))
        kept == {k \in 1..Len(s) : k = 1 \/ SortKey(s[k - 1]) # SortKey(s[k])}
    IN  [n \in 1..Cardinality(kept) |->
            s[CHOOSE k \in kept : Cardinality({j \in kept : j < k}) = n - 1]]

sort_by_key(seq) == SortFirst(seq, Len(seq))

\* What one call gathers from a provider.
Gathered(p) == IF p = "claude" THEN gather_claude ELSE gather_from_candidates(p)

SourceStat(p) == [provider |-> p, count |-> Len(Gathered(p))]

\* SourceStats as it would be if every provider were pushed.
AllSourceStats == [k \in 1..3 |-> SourceStat(SourceOrder[k])]

\* sources: a SourceStat is pushed for each provider whose records are not
\* empty, claude, codex, gemini in that order.
SourceStats ==
    LET NotEmpty(st) == st.count # 0
    IN  SelectSeq([k \in 1..3 |-> SourceStat(SourceOrder[k])], NotEmpty)

\* all, before the sort.
Appended == Gathered("claude") \o Gathered("codex") \o Gathered("gemini")

\* The text of the unified file for the records written.
Written(all) == FileOf([k \in 1..Len(all) |-> to_string(all[k])])

UnifyResult(all) ==
    [unified_path |-> "unified/unified.jsonl", total_messages |-> Len(all),
     sources |-> SourceStats]

\* What a call did: how it ended ("ok", "err", or "hang" when it never
\* returned), the value returned, and the records before and after the sort.
Run(status, val, all) ==
    [status |-> status, val |-> val, gathered |-> Appended, sorted |-> all]

\* ------------------------------------------------------------- history: unify
\* Result<UnifyResult, String>
NoResult == [unified_path |-> "", total_messages |-> 0, sources |-> <<>>]

UnifyOk(res) == [error |-> "", result |-> res]

UnifyErr(msg) == [error |-> msg, result |-> NoResult]

\* What the file system does to the output of unify: nothing ("ok"), there
\* is no home directory, create_dir_all fails, File::create fails, or a
\* writeln! fails.
Envs == {"ok", "nohome", "mkdir", "create", "write"}

\* unify_provider_histories: gather, count, append, sort, write, return.
\* The function is synchronous from its first line to its last: one step.
unify_provider_histories ==
    /\ Len(runs) < MaxCalls
    /\ \A k \in 1..Len(runs) : runs[k].status # "hang"
    /\ LET all == sort_by_key(Appended) IN
       IF ReadNeverEnds
       THEN /\ runs' = Append(runs, Run("hang", UnifyErr(""), <<>>))
            /\ unified' = unified
       ELSE IF env = "nohome"
       THEN /\ runs' = Append(runs, Run("err", UnifyErr("Could not find home directory"), all))
            /\ unified' = unified
       ELSE IF env \in {"mkdir", "create"}
       THEN /\ runs' = Append(runs, Run("err", UnifyErr("io error"), all))
            /\ unified' = unified
       ELSE IF env = "write" /\ all # <<>>
       THEN /\ runs' = Append(runs, Run("err", UnifyErr("io error"), all))
            /\ \E k \in 1..Len(all) : unified' = Written(SubSeq(all, 1, k - 1))
       ELSE /\ runs' = Append(runs, Run("ok", UnifyOk(UnifyResult(all)), all))
            /\ unified' = Written(all)
    /\ UNCHANGED <<svars, quiet, mvars, files, env>>

\* The files of a drawing of n lines: line k belongs to the provider
\* owner[k], and a file starts at every k with cut[k]; the file that starts
\* at line bad (if any) has the access acc.
RECURSIVE FilesFrom(_, _, _, _, _, _)
FilesFrom(lines, owner, cut, bad, acc, k) ==
    IF k > Len(lines) THEN <<>>
    ELSE LET n == Len(lines)
             j == CHOOSE m \in k..n : /\ \A x \in (k + 1)..m : ~cut[x]
                                      /\ m = n \/ cut[m + 1]
         IN  << [provider |-> SourceOrder[owner[k]],
                 access |-> IF k = bad THEN acc ELSE "ok",
                 lines |-> SubSeq(lines, k, j)] >>
             \o FilesFrom(lines, owner, cut, bad, acc, j + 1)

\* Any log files of at most MaxRecords lines: claude's files first, then
\* codex's, then gemini's, each provider's in the order its directory walk
\* yields them; at most one file cannot be opened or read, and then the
\* output meets no failure.  A unified file of an earlier run may exist.
InitUnify ==
    /\ InitSupervisor
    /\ quiet = {}
    /\ InitSettings
    /\ runs = <<>>
    /\ unified \in {NoFile, FileOf(<<Json(TsAbsent, TRUE)>>)}
    /\ \E n \in 0..MaxRecords :
         \E lines \in [1..n -> LineSet], owner \in [1..n -> 1..3],
            cut \in [1..n -> BOOLEAN], bad \in 0..n, acc \in {"noopen", "readerr"} :
             /\ \A k \in 1..n : cut[k] \/ (k > 1 /\ owner[k - 1] = owner[k])
             /\ \A k \in 2..n : owner[k - 1] <= owner[k]
             /\ bad > 0 => cut[bad]
             /\ files = FilesFrom(lines, owner, cut, bad, acc, 1)
             /\ env \in IF bad = 0 THEN Envs ELSE {"ok"}

NextUnify == unify_provider_histories

SpecUnify == InitUnify /\ [][NextUnify]_vars

\* ------------------------------------------------------------- events of a session
Indices(log) == 1..Len(log)

Range(log) == {log[k] : k \in Indices(log)}

IsInitOf(e, S) == e.type = "init" /\ e.sid = S

SessionOut(p, S) == emitted[TopicSession(p, "output", S)]

SessionErr(p, S) == emitted[TopicSession(p, "error", S)]

WideOut(p) == emitted[TopicWide(p, "output")]

WideErr(p) == emitted[TopicWide(p, "error")]

\* C1: on the output and error topics of a provider, session-scoped and
\* provider-wide, nothing for session id S is published before the init
\* event carrying S: the session-scoped output topic starts with it, every
\* other output payload for S on the provider-wide topic has it earlier on
\* that topic, and an error payload for S exists only once the init event
\* is on both output topics.
C1_InitFirst ==
    \A p \in Providers, S \in SessionIds :
        LET so == SessionOut(p, S)
            wo == WideOut(p)
            InitOnBoth == /\ so # <<>>
                          /\ \E j \in Indices(wo) : IsInitOf(wo[j], S)
        IN  /\ so # <<>> => IsInitOf(so[1], S)
            /\ \A k \in Indices(wo) :
                  (wo[k].sid = S /\ wo[k].type # "init")
                      => /\ \E j \in 1..(k - 1) : IsInitOf(wo[j], S)
                         /\ so # <<>>
            /\ SessionErr(p, S) # <<>> => InitOnBoth
            /\ \A k \in Indices(WideErr(p)) : WideErr(p)[k].sid = S => InitOnBoth

\* A session has published its init event, a stdout line and a stderr line.
C1_Witness ==
    \E p \in Providers, S \in SessionIds :
        /\ Len(SessionOut(p, S)) >= 2
        /\ SessionOut(p, S)[2].type = "assistant"
        /\ \E k \in Indices(WideOut(p)) :
              WideOut(p)[k].sid = S /\ WideOut(p)[k].type = "assistant"
        /\ SessionErr(p, S) # <<>>
        /\ WideErr(p) # <<>>

\* ------------------------------------------------------------- registry before events
Published == {e \in UNION {{emitted[t][k] : k \in Indices(emitted[t])} : t \in Topics} : TRUE}

\* The register call of invocation i reported DuplicateSession: the record of
\* its session id is the one an earlier invocation inserted.
RegisterFailed(i) ==
    /\ pc[i] \notin {"idle", "track"}
    /\ ret[i] # Err("Failed to spawn")
    /\ registry[Sid(i)].pid # i

\* C2: whenever a payload for session id S has been published on any topic
\* (init, output, error or completion), the registry holds a record of S;
\* this includes the invocations whose register call reported a failure.
C2_RegisteredBeforeEvents ==
    \A e \in Published : registry[e.sid] # NoRecord

\* An invocation whose register call failed has published events.
C2_Witness ==
    \E i \in Invocations :
        /\ RegisterFailed(i)
        /\ \E e \in Published : e.by = i /\ e.type = "assistant"


\* ------------------------------------------------------------- cancel
\* Sessions of provider p that are running: the start/resume call has
\* returned Ok(()) and the completion event has not been emitted yet.
RunningOn(p) == {i \in Invocations : Prov(i) = p /\ ret[i] = OkUnit /\ cpc[i] = "wait"}

\* Processes whose handle left the slot without being killed.
Orphaned == {c \in Invocations : /\ pc[c] \notin {"idle", "track"}
                                 /\ ret[c] # Err("Failed to spawn")
                                 /\ slot[Prov(c)] # c
                                 /\ c \notin killed}

\* C3 as claimed: in every state where a session of provider p is running,
\* a cancel() that returns success leaves the slot of p empty and has killed
\* the process of each running session of p (the process spawned for it, or
\* the one whose streams it reads).
C3_AsClaimed ==
    \A p \in Providers, killOk \in BOOLEAN :
        LET r == cancel_execution(slot, killed, p, killOk) IN
        (RunningOn(p) # {} /\ r.ret = OkUnit)
            => /\ r.slot[p] = None
               /\ \A i \in RunningOn(p) : i \in r.killed \/ src[i] \in r.killed

\* C4: on an empty slot cancel() returns Ok(()) and changes nothing (no
\* kill, no event, slot and registry as they were), whatever start_kill
\* would have answered; and after a cancel() that returned Ok(()), a second
\* cancel() returns Ok(()) and leaves the state of the first.
C4_CancelIdempotent ==
    /\ [](\A p \in Providers, k1 \in BOOLEAN, k2 \in BOOLEAN :
            LET r1 == cancel_execution(slot, killed, p, k1)
                r2 == cancel_execution(r1.slot, r1.killed, p, k2)
            IN  /\ slot[p] = None => r1 = [slot |-> slot, killed |-> killed, ret |-> OkUnit]
                /\ r1.ret = OkUnit => r2 = r1)
    /\ [][\A p \in Providers : (slot[p] = None /\ Cancel(p)) => UNCHANGED <<svars, uvars>>]_vars
    /\ [][\A p \in Providers : Cancel(p) => UNCHANGED <<registry, emitted>>]_vars

\* A cancel() has killed the process of a provider whose slot is now empty,
\* so that the next cancel() of that provider meets an empty slot.
C4_Witness ==
    \E c \in killed : slot[Prov(c)] = None /\ registry[Sid(c)] # NoRecord


\* ------------------------------------------------------------- both topics
\* Invocation i has emitted a payload of kind K on one of its two topics
\* and not yet on the other.
MidEmit(i, K) ==
    \/ K = "output" /\ (pc[i] = "init_session" \/ opc[i] = "wide")
    \/ K = "error" /\ epc[i] = "wide"
    \/ K = "complete" /\ cpc[i] = "wide"

\* The payloads of log that belong to session id S / were emitted by i.
OfSession(log, S) == LET T(e) == e.sid = S IN SelectSeq(log, T)

EmittedBy(log, i) == LET T(e) == e.by = i IN SelectSeq(log, T)

\* What a subscriber receives: the payloads without the model's bookkeeping
\* (the emitting invocation, and the session id on payloads that carry none).
Payload(e) ==
    [type |-> e.type, session_id |-> IF e.type = "init" THEN e.sid ELSE None,
     text |-> e.line]

Payloads(log) == [k \in Indices(log) |-> Payload(log[k])]

\* C5 as claimed: for every provider, kind and session id S, once no
\* emitting step for S is half done, the sequence of payloads on the
\* session-scoped topic equals the subsequence of the provider-wide topic
\* that belongs to S.
C5_AsClaimed ==
    \A p \in Providers, K \in Kinds, S \in SessionIds :
        (\A i \in Called : (Prov(i) = p /\ Sid(i) = S) => ~MidEmit(i, K))
            => Payloads(emitted[TopicSession(p, K, S)])
                   = Payloads(OfSession(emitted[TopicWide(p, K)], S))

\* C5 as amended: every payload is published on both topics of its invocation's
\* provider and session id: once invocation i has no emitting step of kind K
\* half done, the payloads i emitted are the same sequence on the
\* session-scoped and on the provider-wide topic (so both topics hold the same
\* payloads for S, the same number of times), and a session-scoped topic
\* holds only payloads of its own provider and session id.
C5_BothTopics ==
    /\ \A i \in Called, K \in Kinds :
          ~MidEmit(i, K)
              => EmittedBy(emitted[TopicSession(Prov(i), K, Sid(i))], i)
                     = EmittedBy(emitted[TopicWide(Prov(i), K)], i)
    /\ \A p \in Providers, K \in Kinds, S \in SessionIds :
          \A k \in Indices(emitted[TopicSession(p, K, S)]) :
              LET e == emitted[TopicSession(p, K, S)][k] IN
              e.sid = S /\ e.provider = p /\ Prov(e.by) = p /\ Sid(e.by) = S

\* Two invocations share a provider and a session id and both have
\* published on its output topics; one has finished all its emissions.
C5_Witness ==
    \E i \in Called, j \in Called :
        /\ i # j /\ Prov(i) = Prov(j) /\ Sid(i) = Sid(j)
        /\ cpc[i] = "done" /\ nOut[i] >= 1
        /\ EmittedBy(emitted[TopicWide(Prov(j), "output")], j) # <<>>


\* ------------------------------------------------------------- completion
Wired == {i \in Invocations : ret[i] = OkUnit}

CompleteOnSession(i) == EmittedBy(emitted[TopicSession(Prov(i), "complete", Sid(i))], i)

CompleteOnWide(i) == EmittedBy(emitted[TopicWide(Prov(i), "complete")], i)

\* The output and error payloads invocation i has emitted, topic by topic.
LinesBy(i) ==
    << EmittedBy(SessionOut(Prov(i), Sid(i)), i), EmittedBy(WideOut(Prov(i)), i),
       EmittedBy(SessionErr(Prov(i), Sid(i)), i), EmittedBy(WideErr(Prov(i)), i) >>

\* A wired invocation emits its completion event at most once on each topic,
\* and exactly once on each by the time its completion task clears the slot;
\* the event is emitted only when both its reader tasks have seen
\* end-of-stream, and no output or error payload of the invocation is emitted
\* after it.  An invocation that was not wired emits none.
CompleteOnce ==
    \A i \in Called :
        /\ Len(CompleteOnSession(i)) <= 1 /\ Len(CompleteOnWide(i)) <= 1
        /\ (CompleteOnSession(i) # <<>> \/ CompleteOnWide(i) # <<>>)
              => i \in Wired /\ opc[i] = "eof" /\ epc[i] = "eof"
        /\ cpc[i] \in {"clear", "done"}
              => Len(CompleteOnSession(i)) = 1 /\ Len(CompleteOnWide(i)) = 1

CompleteIsLast ==
    \A i \in Called : CompleteOnSession(i) # <<>> => LinesBy(i)' = LinesBy(i)

C7_CompletionReached ==
    /\ \A i \in Invocations :
          (cpc[i] = "wait" /\ opc[i] = "eof" /\ epc[i] = "eof")
              ~> (/\ cpc[i] = "done"
                  /\ Len(CompleteOnSession(i)) = 1
                  /\ Len(CompleteOnWide(i)) = 1)
    /\ [](\A i \in Called :
            \A e \in Range(CompleteOnSession(i)) \cup Range(CompleteOnWide(i)) :
                Payload(e) = [type |-> "true", session_id |-> None, text |-> <<>>])

\* An invocation whose process was killed by cancel has completed: its
\* completion event is on both topics and its slot-clearing step has run.
C7_Witness ==
    \E i \in Wired : /\ src[i] \in killed
                     /\ cpc[i] = "done"
                     /\ Len(CompleteOnSession(i)) = 1
                     /\ Len(CompleteOnWide(i)) = 1


\* ------------------------------------------------------------- order within a stream
\* Line events carry <<process, index>>: the index-th line of that process's
\* stream (stdout on output topics, stderr on error topics).
IsLine(e) == e.type \in {"assistant", "stderr"}

LinesOf(log, i) == LET T(e) == IsLine(e) /\ e.by = i IN SelectSeq(log, T)

InOrderRead(log) ==
    \A k1, k2 \in Indices(log) :
        (/\ k1 < k2
         /\ IsLine(log[k1]) /\ IsLine(log[k2])
         /\ log[k1].type = log[k2].type
         /\ log[k1].line[1] = log[k2].line[1])
            => log[k1].line[2] < log[k2].line[2]

\* C8: on every session-scoped and provider-wide output and error topic, the
\* events of two lines of the same stream appear in the order the lines
\* were read.
C8_OrderWithinStream ==
    \A p \in Providers :
        /\ InOrderRead(WideOut(p)) /\ InOrderRead(WideErr(p))
        /\ \A S \in SessionIds :
              InOrderRead(SessionOut(p, S)) /\ InOrderRead(SessionErr(p, S))

\* Two lines of one stdout have been emitted on both topics.
C8_Witness ==
    \E i \in Wired :
        /\ nOut[i] = 2 /\ opc[i] = "read"
        /\ Len(LinesOf(SessionOut(Prov(i), Sid(i)), i)) = 2
        /\ Len(LinesOf(WideOut(Prov(i)), i)) = 2


\* ------------------------------------------------------------- the id of a start
Starts == {i \in Called : inv[i].kind = "start"}

\* C9 as claimed: the session id of every start differs from the id of every
\* call made before it, and a start that returns successfully returns that
\* id to its caller.
C9_AsClaimed ==
    \A i \in Starts :
        /\ \A j \in Called : j < i => Sid(j) # Sid(i)
        /\ ret[i].ok => ret[i].val = <<Sid(i)>>

\* ------------------------------------------------------------- listing by provider
\* C10: the listing of a provider only holds sessions that are registered
\* with that provider, by an invocation of that provider's commands, and no
\* session is in both listings.
C10_ListingByProvider ==
    \A p \in Providers :
        \A S \in list_running_sessions(p) :
            /\ registry[S].provider = p
            /\ Prov(registry[S].pid) = p
            /\ \A q \in Providers \ {p} : S \notin list_running_sessions(q)

\* Sessions of both providers are registered: each listing holds a session.
C10_Witness ==
    /\ list_running_sessions("codex") # {}
    /\ list_running_sessions("gemini") # {}


\* ------------------------------------------------------------- spawn failure
SpawnFailed(i) == ret[i] = Err("Failed to spawn")

CaptureFailed(i) ==
    ret[i] \in {Err("Failed to capture stdout"), Err("Failed to capture stderr")}

EventsBy(i) == [t \in Topics |-> EmittedBy(emitted[t], i)]

\* C12: a start/resume that fails to take the stdout or stderr handle has
\* returned an error; its session stays registered; it has started no reader
\* and no completion task, and the only events the invocation ever emitted
\* are its init events: none is added after the failure.
C12_CaptureFailure ==
    /\ [](\A i \in Called :
            CaptureFailed(i) =>
                /\ pc[i] = "done" /\ ret[i].returned /\ ~ret[i].ok
                /\ registry[Sid(i)] # NoRecord
                /\ opc[i] = "off" /\ epc[i] = "off" /\ cpc[i] = "off"
                /\ \A t \in Topics : \A e \in Range(EventsBy(i)[t]) : e.type = "init")
    /\ [][\A i \in Called :
            CaptureFailed(i) =>
                /\ CaptureFailed(i)'
                /\ EventsBy(i)' = EventsBy(i)
                /\ registry'[Sid(i)] = registry[Sid(i)]]_vars

\* An invocation failed to take stdout while the record of its session is
\* the one it registered itself.
C12_Witness ==
    \E i \in Called : /\ ret[i] = Err("Failed to capture stdout")
                      /\ registry[Sid(i)].pid = i


\* ------------------------------------------------------------- replaced handles
\* Processes that exist: their spawn succeeded.
Spawned == {c \in Called : ret[c] # Err("Failed to spawn")}

\* Processes whose handle was stored in the slot and is no longer there.
OutOfSlot == {c \in Spawned : pc[c] # "track" /\ slot[Prov(c)] # c}

\* C13: the slot of a provider holds no handle or the handle of one spawned
\* process of that provider; storing a handle in a slot that holds another
\* one replaces it and kills nothing; a process whose handle has left the
\* slot without being killed is never put back, no cancel kills it (whether
\* or not the kill it attempts succeeds), and it is never killed later.
C13_ReplacedNotKilled ==
    /\ [](\A p \in Providers :
            /\ slot[p] \in {None} \cup {c \in Spawned : Prov(c) = p}
            /\ \A c \in OutOfSlot \ killed : \A killOk \in BOOLEAN :
                   c \notin cancel_execution(slot, killed, Prov(c), killOk).killed)
    /\ [][\A i \in Called :
            (pc[i] = "track" /\ pc'[i] # "track")
                => slot'[Prov(i)] = i /\ killed' = killed]_vars
    /\ [][\A c \in OutOfSlot :
            /\ slot'[Prov(c)] # c
            /\ c \notin killed => c \notin killed']_vars

\* The slot held the handle of c when a later call stored its own: c was not
\* killed, and its tasks are still at work.
C13_Witness ==
    \E c, j \in Spawned :
        /\ c # j /\ Prov(c) = Prov(j)
        /\ slot[Prov(c)] = j /\ killed = {}
        /\ c \in Wired /\ cpc[c] = "wait" /\ cpc[j] \in {"off", "wait"}


\* ------------------------------------------------------------- session states
TerminalStates == {"Completed", "Cancelled", "Failed"}

\* The state of one invocation.  Spawning lasts as long as cmd.spawn(), which
\* is inside the call step; Cancelled: its process was killed by cancel;
\* Completed: its completion sequence has run to its end.
InvState(i) ==
    IF pc[i] = "idle" THEN "None"
    ELSE IF SpawnFailed(i) THEN "Failed"
    ELSE IF i \in killed THEN "Cancelled"
    ELSE IF cpc[i] = "done" THEN "Completed"
    ELSE "Running"

\* The state of a session id, from the invocations made with it: Running
\* while one of them is, else Cancelled, Completed or Failed as they ended.
SessionState(S) ==
    LET Of == {i \in Called : Sid(i) = S}
    IN  IF Of = {} THEN "None"
        ELSE IF \E i \in Of : InvState(i) = "Running" THEN "Running"
        ELSE IF \E i \in Of : InvState(i) = "Cancelled" THEN "Cancelled"
        ELSE IF \E i \in Of : InvState(i) = "Completed" THEN "Completed"
        ELSE "Failed"

\* C14 as claimed: once a session id is Completed, Cancelled or Failed, no
\* step moves it to another state.
C14_AsClaimed ==
    [][\A S \in SessionIds :
         SessionState(S) \in TerminalStates => SessionState(S)' = SessionState(S)]_vars

\* C14: every invocation goes None -> (Running | Failed), Running ->
\* (Completed | Cancelled), and its terminal state is final; it becomes
\* Cancelled only in a cancel step that kills the process held in the slot
\* and empties the slot.
C14_InvocationStates ==
    /\ [][\A i \in Invocations :
            /\ InvState(i) \in TerminalStates => InvState(i)' = InvState(i)
            /\ InvState(i) = "None" => InvState(i)' \in {"None", "Running", "Failed"}
            /\ InvState(i) = "Running"
                  => InvState(i)' \in {"Running", "Completed", "Cancelled"}]_vars
    /\ [][\A i \in Invocations :
            (InvState(i) # "Cancelled" /\ InvState(i)' = "Cancelled")
                => /\ slot[Prov(i)] = i /\ slot'[Prov(i)] = None
                   /\ killed' = killed \cup {i}]_vars

\* An invocation that emitted output is Completed and stays so while a
\* later resume with its session id is running or was cancelled.
C14_Witness ==
    \E i, j \in Called :
        /\ i < j /\ Sid(i) = Sid(j)
        /\ InvState(i) = "Completed" /\ InvState(j) \in {"Running", "Cancelled"}
        /\ nOut[i] >= 1


\* ------------------------------------------------------------- unify twice
Returned(status) == {k \in 1..Len(runs) : runs[k].status = status}

\* C15: a unify call that succeeds after one that succeeded leaves the
\* unified file as the earlier call wrote it, line for line, and returns the
\* same UnifyResult; every record it gathered comes from a provider log
\* file, none from the unified file.
C15_Idempotent ==
    [][(/\ runs # <<>> /\ Len(runs') = Len(runs) + 1
        /\ Last(runs).status = "ok" /\ Last(runs').status = "ok")
          => /\ unified' = unified
             /\ Last(runs').val = Last(runs).val
             /\ Len(Last(runs').gathered) = Len(Last(runs).gathered)
             /\ \A rec \in Range(Last(runs').gathered) :
                    rec.origin[1] \in 1..Len(files)]_vars

\* Two calls succeeded, each on three records.
C15_Witness ==
    /\ Returned("ok") = {1, 2}
    /\ runs[2].val.result.total_messages = 3
    /\ Len(unified.lines) = 3

\* ------------------------------------------------------------- order of the output
\* The key as the claim gives it: the epoch milliseconds of a timestamp
\* string that is a date, 0 for every other record.
EpochMillisOrZero(v) ==
    IF v.timestamp.kind = "date" THEN v.timestamp.local - v.timestamp.offset ELSE 0

Origins(seq) == {seq[k].origin : k \in Indices(seq)}

\* C16: in what a call that returned has sorted, the key of a record is at
\* most the key of the record after it, and the sorted records are the
\* gathered records, each once; a successful call wrote them in that order.
C16_OrderedByKey ==
    \A r \in 1..Len(runs) :
        runs[r].status # "hang" =>
            LET out == runs[r].sorted IN
            /\ \A k \in 1..(Len(out) - 1) :
                   EpochMillisOrZero(out[k]) <= EpochMillisOrZero(out[k + 1])
            /\ Len(out) = Len(runs[r].gathered)
            /\ Range(out) = Range(runs[r].gathered)
            /\ Cardinality(Origins(out)) = Len(out)
            /\ (runs[r].status = "ok" /\ r = Len(runs)) => unified = Written(out)

\* A successful call moved records: its three records hold a date, a
\* number as timestamp, and the sort changed their order.
C16_Witness ==
    \E r \in Returned("ok") :
        /\ Len(runs[r].sorted) = 3 /\ runs[r].sorted # runs[r].gathered
        /\ \E k \in 1..3 : runs[r].sorted[k].timestamp = TsNumber
        /\ \E k \in 1..3 : runs[r].sorted[k].timestamp.kind = "date"


\* ------------------------------------------------------------- ties
\* Where a record stands in a sequence.
PositionIn(seq, rec) == CHOOSE k \in Indices(seq) : seq[k] = rec

\* The place of a provider in the order claude, codex, gemini.
Rank(p) == CHOOSE k \in 1..3 : SourceOrder[k] = p

\* Arrival order: first by provider, then by file in the order the walk
\* visits the files, then by line.
ArrivedBefore(a, b) ==
    LET pa == Rank(files[a.origin[1]].provider)
        pb == Rank(files[b.origin[1]].provider)
    IN  \/ pa < pb
        \/ pa = pb /\ a.origin[1] < b.origin[1]
        \/ a.origin[1] = b.origin[1] /\ a.origin[2] < b.origin[2]

\* C17: two records of equal key stand in the sorted sequence as they stood
\* before the sort, and before the sort the records stand in arrival order:
\* claude's, then codex's, then gemini's, each provider's as read.
C17_StableSort ==
    \A r \in 1..Len(runs) :
        runs[r].status # "hang" =>
            LET out == runs[r].sorted
                pre == runs[r].gathered
            IN  /\ \A k1, k2 \in Indices(pre) :
                       k1 < k2 => ArrivedBefore(pre[k1], pre[k2])
                /\ \A k1, k2 \in Indices(out) :
                       (/\ k1 < k2
                        /\ EpochMillisOrZero(out[k1]) = EpochMillisOrZero(out[k2]))
                           => ArrivedBefore(out[k1], out[k2])

\* The sort changed the order of three records; the last two, of different
\* providers, have the same key under different timestamps.
C17_Witness ==
    \E r \in Returned("ok") :
        LET out == runs[r].sorted IN
        /\ Len(out) = 3 /\ out # runs[r].gathered
        /\ EpochMillisOrZero(out[2]) = EpochMillisOrZero(out[3])
        /\ files[out[2].origin[1]].provider # files[out[3].origin[1]].provider
        /\ out[2].timestamp # out[3].timestamp

\* ------------------------------------------------------------- malformed lines
\* The files a call reads in full: claude's files that open, and the files
\* of the other providers that open and mention the project path.
Accepted ==
    {idx \in 1..Len(files) :
        /\ files[idx].access = "ok"
        /\ \/ files[idx].provider = "claude"
           \/ \E k \in Indices(files[idx].lines) : files[idx].lines[k].proj}

FromFile(seq, idx) == LET T(rec) == rec.origin[1] = idx IN SelectSeq(seq, T)

\* The lines of a file that are JSON, in file order, as records.
ParseableLines(idx) ==
    LET IsJson(l) == l.json
        Content(l) == [timestamp |-> l.timestamp, proj |-> l.proj]
        good == SelectSeq(files[idx].lines, IsJson)
    IN  [k \in Indices(good) |-> Content(good[k])]

Contents(seq) ==
    [k \in Indices(seq) |-> [timestamp |-> seq[k].timestamp, proj |-> seq[k].proj]]

\* C18: of every accepted file a call gathers exactly the lines that parse,
\* in file order, wherever the lines that do not parse stand; of a file
\* that is not accepted it gathers nothing.
C18_MalformedDropped ==
    \A r \in 1..Len(runs) :
        (runs[r].status # "hang" /\ env # "nohome") =>
            \A idx \in 1..Len(files) :
                Contents(FromFile(runs[r].gathered, idx))
                    = IF idx \in Accepted THEN ParseableLines(idx) ELSE <<>>

\* A file whose first line is malformed gave the two records after it.
C18_Witness ==
    \E r \in Returned("ok") : \E idx \in Accepted :
        /\ Len(files[idx].lines) = 3
        /\ files[idx].lines[1] = Malformed
        /\ Len(FromFile(runs[r].gathered, idx)) = 2

\* ------------------------------------------------------------- sources
\* The number of gathered records that come from a file of provider p.
CountOf(seq, p) ==
    Cardinality({k \in Indices(seq) : files[seq[k].origin[1]].provider = p})

\* C19: the sources of a successful call name exactly the providers it
\* gathered a record from, claude before codex before gemini, each with the
\* number of its records; no entry has the count 0.
C19_SourcesNonEmpty ==
    \A r \in Returned("ok") :
        LET srcs == runs[r].val.result.sources
            pre == runs[r].gathered
        IN  /\ {srcs[k].provider : k \in Indices(srcs)}
                  = {p \in Range(SourceOrder) : CountOf(pre, p) > 0}
            /\ \A k \in Indices(srcs) :
                   srcs[k].count = CountOf(pre, srcs[k].provider) /\ srcs[k].count > 0
            /\ \A k1, k2 \in Indices(srcs) :
                   k1 < k2 => Rank(srcs[k1].provider) < Rank(srcs[k2].provider)

\* A provider with a log file contributed nothing, the two others did.
C19_Witness ==
    \E r \in Returned("ok") :
        /\ Len(runs[r].val.result.sources) = 2
        /\ {files[idx].provider : idx \in 1..Len(files)} = Range(SourceOrder)


\* ------------------------------------------------------------- failures of unify
\* The lines of the accepted files that parse: what the files that can be
\* read hold for the project.
ReadableRecords ==
    {<<idx, k>> \in (1..Len(files)) \X (1..MaxRecords) :
        /\ idx \in Accepted
        /\ k <= Len(files[idx].lines)
        /\ files[idx].lines[k].json}

\* C20 as claimed: a call that cannot create the output directory, or
\* create or write the unified file, returns an error and no UnifyResult;
\* a call that meets a source file it cannot open or read leaves that file
\* out and returns successfully, with the records of the other files.
C20_AsClaimed ==
    \A r \in 1..Len(runs) :
        /\ (env \in {"mkdir", "create"} \/ (env = "write" /\ runs[r].sorted # <<>>))
              => runs[r].status = "err" /\ runs[r].val.result = NoResult
        /\ (env = "ok" /\ \E idx \in 1..Len(files) : files[idx].access # "ok")
              => /\ runs[r].status = "ok"
                 /\ runs[r].val.result.total_messages = Cardinality(ReadableRecords)


\* ------------------------------------------------------------- whose lines
\* The line events of a log, whatever invocation emitted them.
LineEvents(log) == SelectSeq(log, IsLine)

\* C23 as claimed: every line event on the session-scoped output or error
\* topic of a session id S carries a line of a process that a start/resume
\* invocation of that provider spawned for S.
C23_AsClaimed ==
    \A p \in Providers : \A S \in SessionIds :
        \A e \in Range(LineEvents(SessionOut(p, S))) \cup Range(LineEvents(SessionErr(p, S))) :
            Prov(e.line[1]) = p /\ Sid(e.line[1]) = S

\* ------------------------------------------------------------- whose handle
\* C24 as claimed: when the completion task of an invocation sets the slot
\* of its provider to empty, the slot is empty already or holds the handle
\* of the process spawned by that invocation (or of the process whose
\* streams it read), never the handle of another session's process.
C24_AsClaimed ==
    [][\A i \in Called :
         (cpc[i] = "clear" /\ cpc'[i] = "done")
             => slot[Prov(i)] \in {None, i, src[i]}]_vars


\* ------------------------------------------------------------- the window
\* C25 as claimed: when an invocation acquires its readers and no other
\* start, resume or cancel of its provider has taken a step since the
\* invocation stored its child in the slot, the invocation returns
\* success.
C25_AsClaimed ==
    [][\A i \in Called :
         (pc[i] = "obtain" /\ pc'[i] = "done" /\ i \in quiet)
             => ret'[i] = OkUnit]_vars


\* ------------------------------------------------------------- two providers
\* Invocation i stores its child in this step / its completion task clears
\* the slot in this step.
Stores(i) == pc[i] = "track" /\ pc'[i] # "track"

Clears(i) == cpc[i] = "clear" /\ cpc'[i] = "done"

\* C26: the slot of a provider holds only processes of that provider and
\* an invocation reads only streams of a process of its own provider; a
\* step changes the slot of a provider p only as the store of an
\* invocation of p, the clear of a completion task of p, or a cancel of
\* p, and changes no other slot; a cancel of p leaves the other slot as it
\* is and kills no process but the one the slot of p holds.
C26_SlotsIsolated ==
    /\ [](\A p \in Providers : slot[p] # None => Prov(slot[p]) = p)
    /\ [](\A i \in Called : src[i] # None => Prov(src[i]) = Prov(i))
    /\ [][\A p \in Providers : slot'[p] # slot[p] =>
            /\ \A q \in Providers \ {p} : slot'[q] = slot[q]
            /\ \/ \E i \in Invocations : Stores(i) /\ inv'[i].provider = p /\ slot'[p] = i
               \/ \E i \in Invocations : Clears(i) /\ Prov(i) = p /\ slot'[p] = None
               \/ Cancel(p)]_vars
    /\ [][\A p \in Providers : Cancel(p) =>
            /\ \A q \in Providers \ {p} : slot'[q] = slot[q]
            /\ killed' \ killed \subseteq {slot[p]}
            /\ \A c \in killed' \ killed : Prov(c) = p]_vars

\* A cancel has killed the process of one provider and emptied its slot
\* while the other provider's slot holds a wired process that was not killed.
C26_Witness ==
    \E c \in killed : \E j \in Called :
        /\ Prov(j) # Prov(c)
        /\ slot[Prov(c)] = None
        /\ slot[Prov(j)] = j /\ src[j] = j /\ j \notin killed

\* ------------------------------------------------------------- failed kill
\* C27: in every state where the slot of a provider holds a handle, a
\* cancel whose kill request fails returns an error and leaves slot and
\* kill set as they are, so that a following cancel whose kill request
\* succeeds kills that same process and empties the slot; and a cancel step
\* that empties a slot has killed the process the slot held.
C27_FailedKillKeepsHandle ==
    /\ [](\A p \in Providers : slot[p] # None =>
            LET r1 == cancel_execution(slot, killed, p, FALSE)
                r2 == cancel_execution(r1.slot, r1.killed, p, TRUE)
            IN  /\ r1.ret.returned /\ ~r1.ret.ok
                /\ r1.slot = slot /\ r1.killed = killed
                /\ r2.ret = OkUnit /\ r2.slot[p] = None /\ slot[p] \in r2.killed)
    /\ [][\A p \in Providers :
            (Cancel(p) /\ slot[p] # None /\ slot'[p] = None) => slot[p] \in killed']_vars

\* The slot of a provider holds the handle of a process that was not
\* killed and whose stdout is still being read: a cancel can fail here.
C27_Witness ==
    \E p \in Providers :
        /\ slot[p] # None /\ slot[p] \notin killed
        /\ \E i \in Called : src[i] = slot[p] /\ opc[i] = "read"


\* ------------------------------------------------------------- oldest
\* C22 as claimed: in the output of every successful unify, a record whose
\* timestamp is absent or unparseable is never placed after a record that
\* has a parseable timestamp different from the epoch, whatever that
\* timestamp is.
C22_AsClaimed ==
    \A k \in Indices(runs) : runs[k].status = "ok" =>
        LET out == runs[k].sorted IN
        \A a \in Indices(out), b \in Indices(out) :
            (/\ parse_from_rfc3339(out[a].timestamp) # Nothing
             /\ parse_from_rfc3339(out[a].timestamp) # Some(0)
             /\ out[b].timestamp.kind \in {"absent", "number", "text"})
                => b < a


\* ------------------------------------------------------------- counts
\* The sum of the counts of a sources list.
SumOfCounts(srcs) == SumTo([k \in Indices(srcs) |-> srcs[k].count], Len(srcs))

\* How often record v stands in seq.
Occurrences(seq, v) == Cardinality({k \in Indices(seq) : seq[k] = v})

\* C28: for every successful call, total_messages equals the sum of the
\* counts in sources, the number of records gathered and the number of
\* records after the sort, and every gathered record stands in the sorted
\* sequence as often as in the gathered one; after a successful call the
\* unified file has total_messages lines.
C28_CountsAgree ==
    /\ \A r \in Returned("ok") :
          LET res == runs[r].val.result
              pre == runs[r].gathered
              post == runs[r].sorted
          IN  /\ res.total_messages = SumOfCounts(res.sources)
              /\ res.total_messages = Len(pre)
              /\ res.total_messages = Len(post)
              /\ \A v \in Range(pre) \cup Range(post) :
                     Occurrences(post, v) = Occurrences(pre, v)
    /\ (runs # <<>> /\ Last(runs).status = "ok") =>
          /\ unified.exists
          /\ Len(unified.lines) = Last(runs).val.result.total_messages

\* A successful call gathered three records from two providers or more,
\* the sort moved one of them, and the unified file has three lines.
C28_Witness ==
    \E r \in Returned("ok") :
        /\ r = Len(runs)
        /\ Len(runs[r].gathered) = 3
        /\ Len(runs[r].val.result.sources) >= 2
        /\ runs[r].sorted # runs[r].gathered
        /\ Len(unified.lines) = 3


\* ------------------------------------------------------------- default model
MaxOps == 3     \* settings commands called in one run

\* Model names a caller passes to set_default_model, the empty string among
\* them, and binary paths.
Models == {"", "m1", "m2"}

Paths == {"/bin/x"}

\* What the config files can name: extract_model_value captures one
\* character at least.
ScanResults == {Nothing} \cup {Some(m) : m \in Models \ {""}}

\* Where a write to the store can fail: nowhere, before the connection is
\* open (app_data_dir, create_dir_all, Connection::open), at CREATE TABLE,
\* or at the INSERT.
WriteFailures == {"none", "open", "table", "insert"}

\* read_db_value: the value of the row of key, when agents.db exists, opens
\* and the query returns a row; None in every other case.
read_db_value(d, key) ==
    IF d.file /\ d.table /\ d.rows[key] # Nothing THEN d.rows[key] ELSE Nothing

\* write_db_value: every failure is returned before the later statements
\* run; created is whether the database file exists after a failed CREATE
\* TABLE.  INSERT .. ON CONFLICT(key) DO UPDATE replaces the row's value.
write_db_value(d, key, value, fail, created) ==
    IF fail = "open" THEN [db |-> d, ret |-> Err("open")]
    ELSE IF fail = "table"
    THEN [db |-> [d EXCEPT !.file = d.file \/ created], ret |-> Err("create table")]
    ELSE IF fail = "insert"
    THEN [db |-> [d EXCEPT !.file = TRUE, !.table = TRUE], ret |-> Err("insert")]
    ELSE [db |-> [file |-> TRUE, table |-> TRUE,
                  rows |-> [d.rows EXCEPT ![key] = Some(value)]],
          ret |-> OkUnit]

\* search_*_config_for_default_model: the first value a scan of the
\* provider's config directories finds.
search_config_for_default_model(p) == config[p]

\* get_default_model as it would be if the config files were asked first.
get_default_model_scan_first(d, p) ==
    IF search_config_for_default_model(p) # Nothing
    THEN search_config_for_default_model(p)
    ELSE read_db_value(d, DefaultModelKey(p))

\* get_*_default_model: Ok(Some(v)) for a stored v, else Ok(scan).
get_default_model(d, p) ==
    IF read_db_value(d, DefaultModelKey(p)) # Nothing
    THEN read_db_value(d, DefaultModelKey(p))
    ELSE search_config_for_default_model(p)

\* set_*_default_model(model)
set_default_model(d, p, model, fail, created) ==
    write_db_value(d, DefaultModelKey(p), model, fail, created)

\* set_*_binary_path(path): the same statements on the other key.
set_binary_path(d, p, path, fail, created) ==
    write_db_value(d, BinaryPathKey(p), path, fail, created)

\* One entry of calls.
Call(op, p, arg, ok, value) ==
    [op |-> op, provider |-> p, arg |-> arg, ok |-> ok, value |-> value]

GetDefaultModel(p) ==
    /\ Len(calls) < MaxOps
    /\ calls' = Append(calls, Call("get", p, "", TRUE, get_default_model(db, p)))
    /\ UNCHANGED <<svars, uvars, quiet, db, config>>

SetDefaultModel(p, model) ==
    /\ Len(calls) < MaxOps
    /\ \E fail \in WriteFailures, created \in BOOLEAN :
         LET r == set_default_model(db, p, model, fail, created) IN
         /\ db' = r.db
         /\ calls' = Append(calls, Call("set", p, model, r.ret.ok, Nothing))
    /\ UNCHANGED <<svars, uvars, quiet, config>>

SetBinaryPath(p, path) ==
    /\ Len(calls) < MaxOps
    /\ \E fail \in WriteFailures, created \in BOOLEAN :
         LET r == set_binary_path(db, p, path, fail, created) IN
         /\ db' = r.db
         /\ calls' = Append(calls, Call("set_path", p, path, r.ret.ok, Nothing))
    /\ UNCHANGED <<svars, uvars, quiet, config>>

\* The settings commands on their own: any config files, and a store that
\* is absent or was written by earlier runs of the application.
InitStore ==
    /\ InitSupervisor
    /\ quiet = {}
    /\ files = <<>> /\ env = "ok" /\ unified = NoFile /\ runs = <<>>
    /\ config \in [Providers -> ScanResults]
    /\ calls = <<>>
    /\ \E file \in BOOLEAN, stored \in [Providers -> {Nothing, Some("m1")}] :
         db = [file |-> file, table |-> file,
               rows |-> [k \in Keys |->
                           IF file /\ k[2] = "default_model" THEN stored[k[1]]
                           ELSE Nothing]]

NextStore ==
    \/ \E p \in Providers : GetDefaultModel(p)
    \/ \E p \in Providers, model \in Models : SetDefaultModel(p, model)
    \/ \E p \in Providers, path \in Paths : SetBinaryPath(p, path)

SpecStore == InitStore /\ [][NextStore]_vars


\* ------------------------------------------------------------- store first
\* The value the settings store holds under the default-model key of p.
StoredModel(p) ==
    IF db.file /\ db.table THEN db.rows[DefaultModelKey(p)] ELSE Nothing

\* Call j is a get of provider p that follows call k with no successful
\* set_default_model of p between them.
NextGetAfter(k, j, p) ==
    /\ k < j
    /\ calls[j].op = "get" /\ calls[j].provider = p
    /\ \A n \in (k + 1)..(j - 1) :
           ~(calls[n].op = "set" /\ calls[n].provider = p /\ calls[n].ok)

=============================================================================
